---- MODULE Spec2Model ----
(***************************************************************************)
(* A model of search.py: the Paper record, the retry client, the editor    *)
(* roster batch lookup, the match-check pass and the BFS loop of main().   *)
(***************************************************************************)
EXTENDS Integers, Sequences, FiniteSets, TLC

\* ------------------------------------------------------------------ bounds
NumIds == 3        \* paper ids are 1..NumIds
MaxSeeds == 2      \* longest list of seed papers
MaxNbrs == 1       \* longest citations / references list of one answer
MaxDepth == 1      \* largest --depth
MaxOwned == 1      \* most paper ids one editor owns

Ids == 1..NumIds
\* the editors of the board, in listing order
EditorList == <<"Jane Doe", "Bob">>
Editors == {EditorList[i] : i \in DOMAIN EditorList}

\* HTTP status codes the services answer with
OK == 200
TooManyRequests == 429
\* 500 stands for every other status
Statuses == {OK, TooManyRequests, 500}

\* ------------------------------------------------------------------ helpers
Range(s) == {s[i] : i \in DOMAIN s}

SeqsUpTo(S, n) == UNION {[1..k -> S] : k \in 0..n}

RECURSIVE Pow2(_)
Pow2(n) == IF n = 0 THEN 1 ELSE 2 * Pow2(n - 1)

RECURSIVE SumSeq(_)
SumSeq(s) == IF s = <<>> THEN 0 ELSE Head(s) + SumSeq(Tail(s))

\* ------------------------------------------------------------------ Paper
\* An optional Paper is a sequence of length 0 (None) or 1.
None == <<>>

\* The title the graph service gives the paper with this id.
TitleOf(id) == ToString(id)

\* Paper.__init__
Paper(id, title) ==
    [id |-> id, title |-> title, cited_paper |-> None, referenced_by_paper |-> None]

\* Paper.cited
cited(self, paper) == [self EXCEPT !.cited_paper = <<paper>>]

\* a referenced paper linked through the wrong field
referenced_by_as_cited(self, paper) == [self EXCEPT !.cited_paper = <<paper>>]

\* Paper.referenced_by
referenced_by(self, paper) == [self EXCEPT !.referenced_by_paper = <<paper>>]

\* Paper.get_path_string, as the list of its lines
RECURSIVE get_path_string(_)
get_path_string(self) ==
    IF self.cited_paper # None
    THEN <<self.title, "which cited">> \o get_path_string(self.cited_paper[1])
    ELSE IF self.referenced_by_paper # None
    THEN <<self.title, "which was referenced by">>
             \o get_path_string(self.referenced_by_paper[1])
    ELSE <<self.title>>

\* Paper.get_path_depth
RECURSIVE get_path_depth(_)
get_path_depth(self) ==
    IF self.cited_paper # None
    THEN 1 + get_path_depth(self.cited_paper[1])
    ELSE IF self.referenced_by_paper # None
    THEN 1 + get_path_depth(self.referenced_by_paper[1])
    ELSE 0

\* ------------------------------------------------------------------ check_papers
\* The papers of the batch whose id the editor owns, in batch order.
Matches(papers, editor_paper_ids) ==
    SelectSeq(papers, LAMBDA paper : paper.id \in editor_paper_ids)

\* check_papers with `findings[editor] = [paper]` where the entry exists already:
\* an editor's entry is replaced by the matches of this batch
check_papers_overwrite(papers, editors_paper_ids, findings) ==
    LET hit == {e \in DOMAIN editors_paper_ids :
                    Matches(papers, editors_paper_ids[e]) # <<>>}
    IN  [e \in DOMAIN findings \cup hit |->
            IF e \in hit THEN Matches(papers, editors_paper_ids[e]) ELSE findings[e]]

\* check_papers: findings after the pass. A findings map is a function whose
\* domain is the set of editors that have an entry.
check_papers(papers, editors_paper_ids, findings) ==
    LET hit == {e \in DOMAIN editors_paper_ids :
                    Matches(papers, editors_paper_ids[e]) # <<>>}
    IN  [e \in DOMAIN findings \cup hit |->
            (IF e \in DOMAIN findings THEN findings[e] ELSE <<>>)
            \o (IF e \in hit THEN Matches(papers, editors_paper_ids[e]) ELSE <<>>)]

\* ------------------------------------------------------------------ neighbour fetch
\* get_citing_and_referenced_papers, given what the request returned
get_citing_and_referenced_papers(status, citations, references) ==
    IF status = OK
    THEN <<[i \in DOMAIN citations |-> Paper(citations[i], TitleOf(citations[i]))],
           [i \in DOMAIN references |-> Paper(references[i], TitleOf(references[i]))]>>
    ELSE <<<<>>, <<>>>>

\* ------------------------------------------------------------------ state
VARIABLES
    pc,                 \* position of main()
    depth,              \* args.depth
    papers,             \* the seed papers, get_papers_on_s2's result
    editors_paper_ids,  \* the roster
    findings,
    fringe,
    found_ids,
    paper,              \* the dequeued paper (None before the first dequeue)
    citing_papers,
    referenced_papers,
    new_papers,
    enqueued,           \* history: every paper appended to fringe, in order
    checked,            \* history: every paper passed to check_papers
    fetched,            \* history: every paper whose neighbours were fetched
    interrupted         \* history: a KeyboardInterrupt was caught

\* request_with_retries
VARIABLES
    r_pc,               \* position of request_with_retries
    max_retries,
    script,             \* the status the service answers the i-th GET with
    attempt,            \* iterations of the for loop completed
    wait_time,
    response,           \* the last response received (None before the first)
    events              \* history: the GETs sent and the sleeps slept, in order

\* scrape_editors_paper_ids, the loop of lines 194-221
VARIABLES
    s_pc,               \* position of the loop body
    editors_publications,
    s_index,            \* number of editors done
    r,                  \* status of the last batch response (None before the first)
    s_wait_time,
    s_sleeps,           \* history: the sleeps spent on the current editor
    s_posts             \* history: the requests sent for the current editor

\* check_papers called on its own
VARIABLES
    c_calls,            \* number of calls made with the same batch
    c_findings0,        \* history: findings before the first call
    c_findings1         \* history: findings after the first call

bfsOnly == <<pc, depth, fringe, found_ids, paper, citing_papers, referenced_papers,
             new_papers, enqueued, checked, fetched, interrupted>>
retryVars == <<r_pc, max_retries, script, attempt, wait_time, response, events>>
rosterOnly == <<s_pc, editors_publications, s_index, r, s_wait_time, s_sleeps, s_posts>>
checkOnly == <<c_calls, c_findings0, c_findings1>>
nonBfs == <<retryVars, rosterOnly, checkOnly>>

vars == <<papers, editors_paper_ids, findings, bfsOnly, retryVars, rosterOnly, checkOnly>>

\* the components a specification does not run
BfsIdle ==
    /\ pc = "idle" /\ depth = 0 /\ fringe = <<>> /\ found_ids = {} /\ paper = None
    /\ citing_papers = <<>> /\ referenced_papers = <<>> /\ new_papers = <<>>
    /\ enqueued = <<>> /\ checked = {} /\ fetched = {} /\ interrupted = FALSE

RetryIdle ==
    /\ r_pc = "idle" /\ max_retries = 0 /\ script = <<>> /\ attempt = 0
    /\ wait_time = 1 /\ response = None /\ events = <<>>

RosterIdle ==
    /\ s_pc = "idle" /\ editors_publications = <<>> /\ s_index = 0 /\ r = None
    /\ s_wait_time = 1 /\ s_sleeps = <<>> /\ s_posts = 0

CheckIdle ==
    /\ c_calls = 0 /\ c_findings0 = <<>> /\ c_findings1 = <<>>

\* get_papers_on_s2: one Paper per title that resolved, in title order; two titles
\* may resolve to the same paper id.
SeedLists == {[i \in DOMAIN s |-> Paper(s[i], TitleOf(s[i]))] :
                 s \in SeqsUpTo(Ids, MaxSeeds)}

\* scrape_editors_paper_ids: editors with no resolved id have no entry.
IdSets == {S \in SUBSET Ids : S # {} /\ Cardinality(S) <= MaxOwned}
Rosters == UNION {[E -> IdSets] : E \in SUBSET Editors}

NbrLists == SeqsUpTo(Ids, MaxNbrs)

Init ==
    /\ pc = "start"
    /\ depth \in 0..MaxDepth
    /\ papers \in SeedLists
    /\ editors_paper_ids \in Rosters
    /\ findings = <<>>
    /\ fringe = <<>>
    /\ found_ids = {}
    /\ paper = None
    /\ citing_papers = <<>>
    /\ referenced_papers = <<>>
    /\ new_papers = <<>>
    /\ enqueued = <<>>
    /\ checked = {}
    /\ fetched = {}
    /\ interrupted = FALSE
    /\ RetryIdle /\ RosterIdle /\ CheckIdle

\* main, lines 301-308
Begin ==
    /\ pc = "start"
    /\ findings' = check_papers(papers, editors_paper_ids, <<>>)
    /\ checked' = Range(papers)
    /\ fringe' = papers
    /\ enqueued' = papers
    /\ found_ids' = {papers[i].id : i \in DOMAIN papers}
    /\ pc' = "loop"
    /\ UNCHANGED <<depth, papers, editors_paper_ids, paper, citing_papers,
                   referenced_papers, new_papers, fetched, interrupted,
                   nonBfs>>

\* while fringe: ... the loop ends with an empty fringe
LoopExit ==
    /\ pc = "loop"
    /\ fringe = <<>>
    /\ pc' = "done"
    /\ UNCHANGED <<depth, papers, editors_paper_ids, findings, fringe, found_ids, paper,
                   citing_papers, referenced_papers, new_papers, enqueued, checked,
                   fetched, interrupted,
                   nonBfs>>

\* the front paper read but left in the list
pop0_peek(list) == list

\* what fringe.pop(0) leaves in the list
pop0(list) == Tail(list)

\* paper = fringe.pop(0)
Dequeue ==
    /\ pc = "loop"
    /\ fringe # <<>>
    /\ paper' = <<Head(fringe)>>
    /\ fringe' = pop0(fringe)
    /\ pc' = "depth"
    /\ UNCHANGED <<depth, papers, editors_paper_ids, findings, found_ids,
                   citing_papers, referenced_papers, new_papers, enqueued, checked,
                   fetched, interrupted,
                   nonBfs>>

\* the cutoff one level too deep
BeyondDepthOffByOne(p, d) == get_path_depth(p) > d + 1

\* the depth cutoff of line 314
BeyondDepth(p, d) == get_path_depth(p) > d

\* if paper.get_path_depth() > args.depth: break
DepthCheck ==
    /\ pc = "depth"
    /\ pc' = IF BeyondDepth(paper[1], depth) THEN "done" ELSE "fetch"
    /\ UNCHANGED <<depth, papers, editors_paper_ids, findings, fringe, found_ids, paper,
                   citing_papers, referenced_papers, new_papers, enqueued, checked,
                   fetched, interrupted,
                   nonBfs>>

\* citing_papers, referenced_papers = get_citing_and_referenced_papers(...); new_papers = []
Fetch ==
    /\ pc = "fetch"
    /\ \E status \in Statuses, citations \in NbrLists, references \in NbrLists :
          LET got == get_citing_and_referenced_papers(status, citations, references)
          IN  /\ status # OK => citations = <<>> /\ references = <<>>
              /\ citing_papers' = got[1]
              /\ referenced_papers' = got[2]
    /\ new_papers' = <<>>
    /\ fetched' = fetched \cup {paper[1]}
    /\ pc' = "for_citing"
    /\ UNCHANGED <<depth, papers, editors_paper_ids, findings, fringe, found_ids, paper,
                   enqueued, checked, interrupted,
                   nonBfs>>

\* The for loop of lines 321-325 over `list`: <<found_ids, new_papers>> after it.
RECURSIVE AddCiting(_, _, _, _)
AddCiting(list, parent, found, new) ==
    IF list = <<>> THEN <<found, new>>
    ELSE IF Head(list).id \notin found
    THEN AddCiting(Tail(list), parent, found \cup {Head(list).id},
                   Append(new, cited(Head(list), parent)))
    ELSE AddCiting(Tail(list), parent, found, new)

\* The for loop of lines 327-331 over `list`: <<found_ids, new_papers>> after it.
RECURSIVE AddReferenced(_, _, _, _)
AddReferenced(list, parent, found, new) ==
    IF list = <<>> THEN <<found, new>>
    ELSE IF Head(list).id \notin found
    THEN AddReferenced(Tail(list), parent, found \cup {Head(list).id},
                       Append(new, referenced_by(Head(list), parent)))
    ELSE AddReferenced(Tail(list), parent, found, new)

\* for citing_paper in citing_papers: ...
ForCiting ==
    /\ pc = "for_citing"
    /\ LET res == AddCiting(citing_papers, paper[1], found_ids, new_papers)
       IN  found_ids' = res[1] /\ new_papers' = res[2]
    /\ pc' = "for_referenced"
    /\ UNCHANGED <<depth, papers, editors_paper_ids, findings, fringe, paper,
                   citing_papers, referenced_papers, enqueued, checked, fetched,
                   interrupted,
                   nonBfs>>

\* for referenced_paper in referenced_papers: ...
ForReferenced ==
    /\ pc = "for_referenced"
    /\ LET res == AddReferenced(referenced_papers, paper[1], found_ids, new_papers)
       IN  found_ids' = res[1] /\ new_papers' = res[2]
    /\ pc' = "extend"
    /\ UNCHANGED <<depth, papers, editors_paper_ids, findings, fringe, paper,
                   citing_papers, referenced_papers, enqueued, checked, fetched,
                   interrupted,
                   nonBfs>>

\* the batch put in front of the list
extend_front(list, more) == more \o list

\* list.extend
extend(list, more) == list \o more

\* fringe.extend(new_papers)
Extend ==
    /\ pc = "extend"
    /\ fringe' = extend(fringe, new_papers)
    /\ enqueued' = enqueued \o new_papers
    /\ pc' = "check"
    /\ UNCHANGED <<depth, papers, editors_paper_ids, findings, found_ids, paper,
                   citing_papers, referenced_papers, new_papers, checked, fetched,
                   interrupted,
                   nonBfs>>

\* check_papers(new_papers, editors_paper_ids, findings)
Check ==
    /\ pc = "check"
    /\ findings' = check_papers(new_papers, editors_paper_ids, findings)
    /\ checked' = checked \cup Range(new_papers)
    /\ pc' = "loop"
    /\ UNCHANGED <<depth, papers, editors_paper_ids, fringe, found_ids, paper,
                   citing_papers, referenced_papers, new_papers, enqueued, fetched,
                   interrupted,
                   nonBfs>>

\* the positions inside the try block of lines 311-334
InTry == {"depth", "fetch", "for_citing", "for_referenced", "extend", "check"}

\* except KeyboardInterrupt: break -- the signal may arrive at any statement of the
\* try block
Interrupt ==
    /\ pc \in InTry
    /\ interrupted' = TRUE
    /\ pc' = "done"
    /\ UNCHANGED <<depth, papers, editors_paper_ids, findings, fringe, found_ids, paper,
                   citing_papers, referenced_papers, new_papers, enqueued, checked,
                   fetched,
                   nonBfs>>

\* a KeyboardInterrupt while `while fringe:` is evaluated is outside the try block:
\* it is not caught and main() ends with the traceback, before the report
InterruptOutsideTry ==
    /\ pc = "loop"
    /\ interrupted' = TRUE
    /\ pc' = "aborted"
    /\ UNCHANGED <<depth, papers, editors_paper_ids, findings, fringe, found_ids, paper,
                   citing_papers, referenced_papers, new_papers, enqueued, checked,
                   fetched, nonBfs>>

Step ==
    \/ Begin
    \/ LoopExit
    \/ Dequeue
    \/ DepthCheck
    \/ Fetch
    \/ ForCiting
    \/ ForReferenced
    \/ Extend
    \/ Check

Next == Step \/ Interrupt \/ InterruptOutsideTry

Spec == Init /\ [][Next]_vars

\* ------------------------------------------------------------------ request_with_retries
MaxAttempts == 3   \* largest max_retries tried

Get(status) == [op |-> "GET", arg |-> status]
Sleep(seconds) == [op |-> "sleep", arg |-> seconds]

\* the wait never grows
BackoffConstant(w) == w

\* wait_time *= 2
Backoff(w) == 2 * w

RetryInit ==
    /\ r_pc = "get"
    /\ max_retries \in 1..MaxAttempts
    /\ script \in [1..MaxAttempts -> Statuses]
    /\ attempt = 0
    /\ wait_time = 1
    /\ response = None
    /\ events = <<>>
    /\ papers = <<>> /\ editors_paper_ids = <<>> /\ findings = <<>>
    /\ BfsIdle /\ RosterIdle /\ CheckIdle

nonRetry == <<papers, editors_paper_ids, findings, bfsOnly, rosterOnly, checkOnly>>

\* response = session.get(url); if response.status_code != 429: return response
SendGet ==
    /\ r_pc = "get"
    /\ response' = <<script[attempt + 1]>>
    /\ events' = Append(events, Get(script[attempt + 1]))
    /\ r_pc' = IF script[attempt + 1] # TooManyRequests THEN "returned" ELSE "sleep"
    /\ UNCHANGED <<max_retries, script, attempt, wait_time, nonRetry>>

\* time.sleep(wait_time); wait_time *= 2; then the next iteration of the for loop,
\* or line 86 when range(max_retries) is exhausted
SleepAndDouble ==
    /\ r_pc = "sleep"
    /\ events' = Append(events, Sleep(wait_time))
    /\ wait_time' = Backoff(wait_time)
    /\ attempt' = attempt + 1
    /\ r_pc' = IF attempt + 1 < max_retries THEN "get" ELSE "returned"
    /\ UNCHANGED <<max_retries, script, response, nonRetry>>

RetryNext == SendGet \/ SleepAndDouble

RetrySpec == RetryInit /\ [][RetryNext]_vars

\* the sleeps of a run, in order, and its GETs
SleepsOf(ev) == LET sl == SelectSeq(ev, LAMBDA e : e.op = "sleep")
                IN  [i \in DOMAIN sl |-> sl[i].arg]
GetsOf(ev) == SelectSeq(ev, LAMBDA e : e.op = "GET")

\* ------------------------------------------------------------------ scrape_editors_paper_ids
MaxPubs == 1       \* most publications of one editor
PubCap == 500      \* publications[:500]
WaitCeiling == 10  \* if wait_time > 10: break

\* an external id of a publication: the integer i stands for "ARXIV:i"; None when
\* the export has no open-access link
ExternalIds == {None} \cup {<<i>> : i \in Ids}

Take(list, n) == SubSeq(list, 1, IF Len(list) < n THEN Len(list) ELSE n)

\* arxiv_ids = [id for title, id in publications[:500] if id]
arxiv_ids(publications) ==
    LET kept == SelectSeq(Take(publications, PubCap), LAMBDA id : id # None)
    IN  [i \in DOMAIN kept |-> kept[i][1]]

\* the ceiling compared against twice its value
AbandonLate(w) == w > 2 * WaitCeiling

\* if wait_time > 10: break
Abandon(w) == w > WaitCeiling

RosterInit ==
    /\ s_pc = "post"
    /\ \E pubs \in [DOMAIN EditorList -> SeqsUpTo(ExternalIds, MaxPubs)] :
          editors_publications = [i \in DOMAIN EditorList |-> <<EditorList[i], pubs[i]>>]
    /\ s_index = 0
    /\ r = None
    /\ s_wait_time = 1
    /\ s_sleeps = <<>>
    /\ s_posts = 0
    /\ editors_paper_ids = <<>>
    /\ papers = <<>> /\ findings = <<>>
    /\ BfsIdle /\ RetryIdle /\ CheckIdle

nonRoster == <<papers, findings, bfsOnly, retryVars, checkOnly>>

\* lines 195-202: the first request for the next editor
FirstPost ==
    /\ s_pc = "post"
    /\ s_index < Len(editors_publications)
    /\ \E status \in Statuses : r' = <<status>>
    /\ s_wait_time' = 1
    /\ s_sleeps' = <<>>
    /\ s_posts' = 1
    /\ s_pc' = "while"
    /\ UNCHANGED <<editors_publications, s_index, editors_paper_ids, nonRoster>>

\* one iteration of `while r.status_code == 429`: sleep, double, post again, and
\* break when wait_time > 10
RetryPost ==
    /\ s_pc = "while"
    /\ r = <<TooManyRequests>>
    /\ s_sleeps' = Append(s_sleeps, s_wait_time)
    /\ s_wait_time' = Backoff(s_wait_time)
    /\ \E status \in Statuses : r' = <<status>>
    /\ s_posts' = s_posts + 1
    /\ s_pc' = IF Abandon(Backoff(s_wait_time)) THEN "resolve" ELSE "while"
    /\ UNCHANGED <<editors_publications, s_index, editors_paper_ids, nonRoster>>

\* the while condition is false
WhileExit ==
    /\ s_pc = "while"
    /\ r # <<TooManyRequests>>
    /\ s_pc' = "resolve"
    /\ UNCHANGED <<editors_publications, s_index, r, s_wait_time, s_sleeps, s_posts,
                   editors_paper_ids, nonRoster>>

\* lines 214-221: the rows of a 200 answer, one per requested id, each None or the
\* native paper id
Resolve ==
    /\ s_pc = "resolve"
    /\ LET editor == editors_publications[s_index + 1][1]
           ids == arxiv_ids(editors_publications[s_index + 1][2])
       IN  \E data \in [DOMAIN ids -> {None} \cup {<<i>> : i \in Ids}] :
              LET rows == SelectSeq(data, LAMBDA row : row # None)
                  paper_ids == IF r = <<OK>> THEN [i \in DOMAIN rows |-> rows[i][1]]
                               ELSE <<>>
              IN  editors_paper_ids' =
                      IF paper_ids # <<>>
                      THEN [e \in DOMAIN editors_paper_ids \cup {editor} |->
                               IF e = editor THEN paper_ids
                               ELSE editors_paper_ids[e]]
                      ELSE editors_paper_ids
    /\ s_index' = s_index + 1
    /\ s_pc' = "post"
    /\ UNCHANGED <<editors_publications, r, s_wait_time, s_sleeps, s_posts, nonRoster>>

RosterNext == FirstPost \/ RetryPost \/ WhileExit \/ Resolve

RosterSpec == RosterInit /\ [][RosterNext]_vars

\* ------------------------------------------------------------------ check_papers alone
MaxCalls == 2      \* calls made with the same batch

\* findings maps a run can have built: every entry is a non-empty list
FindingsMaps == UNION {[E -> {<<Paper(i, TitleOf(i))>> : i \in Ids}] : E \in SUBSET Editors}

CheckInit ==
    /\ papers \in SeedLists
    /\ editors_paper_ids \in Rosters
    /\ findings \in FindingsMaps
    /\ c_calls = 0
    /\ c_findings0 = findings
    /\ c_findings1 = <<>>
    /\ BfsIdle /\ RetryIdle /\ RosterIdle

\* check_papers(papers, editors_paper_ids, findings)
CallCheckPapers ==
    /\ c_calls < MaxCalls
    /\ findings' = check_papers(papers, editors_paper_ids, findings)
    /\ c_calls' = c_calls + 1
    /\ c_findings1' = IF c_calls = 0 THEN findings' ELSE c_findings1
    /\ UNCHANGED <<papers, editors_paper_ids, c_findings0, bfsOnly, retryVars, rosterOnly>>

CheckNext == CallCheckPapers

CheckSpec == CheckInit /\ [][CheckNext]_vars

\* ------------------------------------------------------------------ properties
IdsOf(list) == {list[i].id : i \in DOMAIN list}
Parent(p) == IF p.cited_paper # None THEN p.cited_paper[1] ELSE p.referenced_by_paper[1]
Count(list, id) == Cardinality({i \in DOMAIN list : list[i].id = id})
EntryOf(f, e) == IF e \in DOMAIN f THEN f[e] ELSE <<>>

\* the loop was left through the depth cutoff of line 314-315
StoppedAtCutoff ==
    /\ pc = "done" /\ ~interrupted
    /\ paper # None /\ get_path_depth(paper[1]) > depth

\* C1 as stated: with depth 0 only the seed papers are ever passed to check_papers
\* and no neighbour fetch is performed (the loop ends on its first dequeue).
C1_OnlySeedsChecked ==
    depth = 0 => /\ checked \subseteq Range(papers)
                 /\ fetched = {}

\* C1 amended: with depth 0 the papers passed to check_papers are the seeds and the
\* papers found by expanding a seed (path depth 1); neighbours are fetched for seeds
\* only, for every seed when the loop is not interrupted, and the loop ends on the
\* first dequeue of a paper that is not a seed.
C1_SeedsAndTheirNeighbours ==
    depth = 0 =>
        /\ \A p \in checked :
              \/ p \in Range(papers)
              \/ get_path_depth(p) = 1 /\ Parent(p) \in Range(papers)
        /\ fetched \subseteq Range(papers)
        /\ (paper # None /\ get_path_depth(paper[1]) > 0) => pc \in {"depth", "done"}
        /\ (pc = "done" /\ ~interrupted) => fetched = Range(papers)

C1_Witness ==
    /\ depth = 0
    /\ StoppedAtCutoff
    /\ \E p \in checked : get_path_depth(p) = 1

\* C2 as stated: no paper id is appended to the frontier more than once over the
\* run, and every id in the frontier is in the visited set.
C2_NoIdEnqueuedTwice ==
    /\ \A i, j \in DOMAIN enqueued : i # j => enqueued[i].id # enqueued[j].id
    /\ IdsOf(fringe) \subseteq found_ids

\* C4 as stated: when the loop is left on an interrupt, every visited id belongs to
\* a paper that was appended to the frontier and went through check_papers.
C4_InterruptAfterCurrentPaper ==
    (pc = "done" /\ interrupted) =>
        \A id \in found_ids :
            \E i \in DOMAIN enqueued : enqueued[i].id = id /\ enqueued[i] \in checked

\* the processing of the dequeued paper is complete
IterationDone == pc = "loop" /\ paper # None

\* the ids that were visited before `paper` was expanded
VisitedBefore == found_ids \ IdsOf(new_papers)

\* paper cites q, q was not visited before, and editor e owns q
C5_Case(q, e) ==
    /\ q \in IdsOf(referenced_papers)
    /\ q \notin VisitedBefore
    /\ e \in DOMAIN editors_paper_ids
    /\ q \in editors_paper_ids[e]

\* e's findings hold q one hop below `paper`, the hop described by `hop`
C5_Found(q, e, hop) ==
    /\ e \in DOMAIN findings
    /\ \E k \in DOMAIN findings[e] :
          /\ findings[e][k].id = q
          /\ get_path_depth(findings[e][k]) = get_path_depth(paper[1]) + 1
          /\ get_path_string(findings[e][k])
               = <<TitleOf(q), hop>> \o get_path_string(paper[1])

\* C5 as stated: a new paper Q of P's reference list that editor E owns is in E's
\* findings at depth pathDepth(P) + 1 with the hop described as "which cited".
C5_ReferencedSaysWhichCited ==
    IterationDone =>
        \A q \in Ids, e \in Editors : C5_Case(q, e) => C5_Found(q, e, "which cited")

\* C5 amended: ... with the hop described as "which was referenced by"; as "which
\* cited" only when Q is in P's citation list too (citing papers are handled first).
C5_ReferencedSaysReferencedBy ==
    IterationDone =>
        \A q \in Ids, e \in Editors :
            C5_Case(q, e) =>
                C5_Found(q, e, IF q \in IdsOf(citing_papers) THEN "which cited"
                               ELSE "which was referenced by")

C5_Witness ==
    /\ IterationDone
    /\ \E q \in Ids, e \in Editors : C5_Case(q, e) /\ q \notin IdsOf(citing_papers)

\* The interpreter runs the next statement of main() whenever there is one; only the
\* interrupt is up to the environment.
FairSpec == Spec /\ WF_vars(Step)

\* C6: the BFS loop eventually terminates, whatever the neighbour service answers.
C6_Termination == <>(pc \in {"done", "aborted"})

\* the loop stopped at the cutoff with papers left in the frontier, after a fetch
\* that returned papers in both lists
C6_Witness ==
    /\ StoppedAtCutoff
    /\ fringe # <<>>
    /\ citing_papers # <<>> /\ referenced_papers # <<>>

\* C10: the path depths in the frontier are non-decreasing from front to back and
\* differ by at most 1; when the loop stops at the cutoff no paper of depth <= D is
\* left in the frontier; no visited paper is deeper than D + 1.
C10_FrontierDepths ==
    /\ \A i, j \in DOMAIN fringe :
          i < j => get_path_depth(fringe[i]) <= get_path_depth(fringe[j])
    /\ fringe # <<>> =>
          get_path_depth(fringe[Len(fringe)]) - get_path_depth(fringe[1]) <= 1
    /\ StoppedAtCutoff => \A i \in DOMAIN fringe : get_path_depth(fringe[i]) > depth
    /\ \A p \in Range(enqueued) \cup Range(new_papers) : get_path_depth(p) <= depth + 1

\* a frontier that holds papers of two depths after a batch was appended
C10_Witness ==
    /\ pc = "loop"
    /\ fringe # <<>>
    /\ get_path_depth(fringe[Len(fringe)]) = get_path_depth(fringe[1]) + 1

\* C7: after k rate-limited responses and then another one, k < max_retries, the
\* sleeps were 1, 2, ..., 2^(k-1) in that order, k + 1 GETs were sent and the last
\* response is the one returned.
C7_BackoffSchedule ==
    r_pc = "returned" =>
        \A k \in 0..(max_retries - 1) :
            (/\ \A i \in 1..k : script[i] = TooManyRequests
             /\ script[k + 1] # TooManyRequests)
            => /\ SleepsOf(events) = [i \in 1..k |-> Pow2(i - 1)]
               /\ Len(GetsOf(events)) = k + 1
               /\ response = <<script[k + 1]>>

C7_Witness ==
    /\ r_pc = "returned"
    /\ max_retries >= 3
    /\ SubSeq(script, 1, 3) = <<TooManyRequests, TooManyRequests, OK>>
    /\ SleepsOf(events) = <<1, 2>>

\* C8 as stated: a run is GET (sleep GET)*: at most max_retries GETs, every sleep
\* followed by another GET, and the response of the last GET returned.
C8_SleepsOnlyBetweenGets ==
    r_pc = "returned" =>
        /\ Len(GetsOf(events)) <= max_retries
        /\ \A i \in DOMAIN events :
              events[i].op = (IF i % 2 = 1 THEN "GET" ELSE "sleep")
        /\ events[Len(events)].op = "GET"
        /\ response = <<events[Len(events)].arg>>

C3_Idempotent ==
    c_calls >= 1 =>
        /\ \A e \in DOMAIN editors_paper_ids : \A x \in editors_paper_ids[e] :
              Count(papers, x) >= 1 => Count(EntryOf(findings, e), x) = 1
        /\ c_calls >= 2 => findings = c_findings1

\* C3 amended: every call appends each matching paper of the batch once per
\* occurrence in the batch: after n calls findings[E] holds the paper with id X as
\* often as before the first call plus n times its occurrences in the batch.
C3_AppendsPerCall ==
    \A e \in DOMAIN editors_paper_ids : \A x \in editors_paper_ids[e] :
        Count(EntryOf(findings, e), x)
            = Count(EntryOf(c_findings0, e), x) + c_calls * Count(papers, x)

C3_Witness ==
    /\ c_calls = 2
    /\ \E e \in DOMAIN editors_paper_ids : \E x \in editors_paper_ids[e] :
          Count(papers, x) >= 1 /\ Count(EntryOf(findings, e), x) >= 2

====
